---- MODULE Spec2Model ----
(***************************************************************************)
(* Model of src/mcp_proxy.py: the mitmproxy addon MCPLogger, which         *)
(* classifies HTTP bodies as MCP JSON-RPC traffic, submits tools/call      *)
(* requests to an OPA policy (opa CLI or OPA REST server) and answers      *)
(* denied calls itself with a JSON-RPC error.                              *)
(*                                                                         *)
(* Bytes are modelled as sequences of lexical tokens, JSON values as       *)
(* tagged records, json.loads as a recursive-descent parser and json.dumps *)
(* as a serializer, so that parsing can fail and a round trip is a         *)
(* computation.  Python text is a sequence of fragments (f-strings         *)
(* concatenate fragments); the empty string is the empty sequence.         *)
(***************************************************************************)
EXTENDS Integers, Sequences, FiniteSets, TLC

(***************************************************************************)
(* Bounds of the model.                                                    *)
(***************************************************************************)
NumFlows == 2
MaxCount == 2

Flows == 1 .. NumFlows

(***************************************************************************)
(* JSON values (what json.loads returns).                                  *)
(***************************************************************************)
JNull == [t |-> "null", v |-> "null"]
JTrue == [t |-> "bool", v |-> "true"]
JFalse == [t |-> "bool", v |-> "false"]
JNum(n) == [t |-> "num", v |-> n]
JText(frags) == [t |-> "str", v |-> frags]
JStr(s) == JText(<<s>>)
JEmptyStr == JText(<<>>)
JArr(seq) == [t |-> "arr", v |-> seq]
JObj(f) == [t |-> "obj", v |-> f]
EmptyDict == JObj(<<>>)

IsDict(x) == x.t = "obj"
IsList(x) == x.t = "arr"
HasKey(d, k) == k \in DOMAIN d.v
\* dict.get(k, default) on a value known to be a dict
DictGet(d, k, default) == IF HasKey(d, k) THEN d.v[k] ELSE default
\* x == "s" for a str literal s
IsStr(x, s) == x.t = "str" /\ x.v = << s >>

(***************************************************************************)
(* Bytes: sequences of tokens.  "junk" is text that is no JSON token,      *)
(* "badutf8" a byte sequence that is not valid UTF-8.                      *)
(***************************************************************************)
Tok(k, v) == [t |-> k, v |-> v]
P(c) == Tok("punct", c)
Junk == Tok("junk", "<html>")
BadUtf8 == Tok("badutf8", "\\x80")

\* The order in which the dict literals and parsed dicts of the program list
\* their keys (Python dicts keep insertion order).
KeyOrder ==
    << "jsonrpc", "id", "method", "params", "result", "error", "name",
       "arguments", "recipient", "code", "message", "hookSpecificOutput",
       "permissionDecision", "permissionDecisionReason", "tool_name",
       "tool_input", "input" >>

RECURSIVE Dumps(_), DumpsItems(_), DumpsMembers(_, _)
\* json.dumps(value): src/mcp_proxy.py:243 (and :112, :139)
Dumps(x) ==
    CASE x.t = "null" -> << Tok("lit", "null") >>
      [] x.t = "bool" -> << Tok("lit", x.v) >>
      [] x.t = "num" -> << Tok("num", x.v) >>
      [] x.t = "str" -> << Tok("str", x.v) >>
      [] x.t = "arr" -> << P("[") >> \o DumpsItems(x.v) \o << P("]") >>
      [] x.t = "obj" -> << P("{") >> \o DumpsMembers(x.v, 1) \o << P("}") >>

DumpsItems(seq) ==
    IF seq = << >> THEN << >>
    ELSE IF Len(seq) = 1 THEN Dumps(seq[1])
    ELSE Dumps(seq[1]) \o << P(",") >> \o DumpsItems(Tail(seq))

DumpsMembers(f, i) ==
    IF i > Len(KeyOrder) THEN << >>
    ELSE IF KeyOrder[i] \notin DOMAIN f THEN DumpsMembers(f, i + 1)
    ELSE LET rest == DumpsMembers(f, i + 1)
             this == << Tok("str", << KeyOrder[i] >>), P(":") >> \o Dumps(f[KeyOrder[i]])
         IN  IF rest = << >> THEN this ELSE this \o << P(",") >> \o rest

(***************************************************************************)
(* json.loads: a parse step returns [ok, val, rest].                       *)
(***************************************************************************)
PFail == [ok |-> FALSE, val |-> JNull, rest |-> << >>]
POk(x, rest) == [ok |-> TRUE, val |-> x, rest |-> rest]
IsP(ts, c) == ts # << >> /\ Head(ts).t = "punct" /\ Head(ts).v = c

RECURSIVE ParseValue(_), ParseItems(_, _), ParseMembers(_, _)
ParseValue(ts) ==
    IF ts = << >> THEN PFail
    ELSE LET h == Head(ts)
             r == Tail(ts)
         IN  CASE h.t = "str" -> POk(JText(h.v), r)
               [] h.t = "num" -> POk(JNum(h.v), r)
               [] h.t = "lit" ->
                    POk(IF h.v = "null" THEN JNull
                        ELSE IF h.v = "true" THEN JTrue ELSE JFalse, r)
               [] h.t = "punct" /\ h.v = "[" ->
                    IF IsP(r, "]") THEN POk(JArr(<< >>), Tail(r))
                    ELSE ParseItems(r, << >>)
               [] h.t = "punct" /\ h.v = "{" ->
                    IF IsP(r, "}") THEN POk(EmptyDict, Tail(r))
                    ELSE ParseMembers(r, << >>)
               [] OTHER -> PFail

\* after "[" or ",": a value, then "," or "]"
ParseItems(ts, acc) ==
    LET e == ParseValue(ts)
    IN  IF ~e.ok THEN PFail
        ELSE IF IsP(e.rest, ",") THEN ParseItems(Tail(e.rest), Append(acc, e.val))
        ELSE IF IsP(e.rest, "]") THEN POk(JArr(Append(acc, e.val)), Tail(e.rest))
        ELSE PFail

\* after "{" or ",": a string key, ":", a value, then "," or "}".  A repeated
\* key keeps its last value.
ParseMembers(ts, acc) ==
    IF ts = << >> \/ Head(ts).t # "str" \/ Len(Head(ts).v) > 1 \/ ~IsP(Tail(ts), ":")
    THEN PFail
    ELSE LET key == IF Head(ts).v = << >> THEN "" ELSE Head(ts).v[1]
             e == ParseValue(Tail(Tail(ts)))
             acc2 == (key :> e.val) @@ acc
         IN  IF ~e.ok THEN PFail
             ELSE IF IsP(e.rest, ",") THEN ParseMembers(Tail(e.rest), acc2)
             ELSE IF IsP(e.rest, "}") THEN POk(JObj(acc2), Tail(e.rest))
             ELSE PFail

\* Results of a call: a returned value, or a raised exception with its text.
Ret(x) == [exc |-> "none", val |-> x, msg |-> << >>]
RaiseMsg(e, m) == [exc |-> e, val |-> JNull, msg |-> m]
Raise(e) == RaiseMsg(e, << e >>)
Raised(r) == r.exc # "none"

\* json.loads(bytes): decoding comes first (UnicodeDecodeError), then the
\* parse of exactly one value (JSONDecodeError).
Loads(ts) ==
    IF \E i \in 1 .. Len(ts) : ts[i].t = "badutf8" THEN Raise("UnicodeDecodeError")
    ELSE LET r == ParseValue(ts)
         IN  IF r.ok /\ r.rest = << >> THEN Ret(r.val) ELSE Raise("JSONDecodeError")

(***************************************************************************)
(* Python's view of values.                                                *)
(***************************************************************************)
PyNone == JNull

\* bool(x), as in "if policy_error:" and "if not content:"
Truthy(x) ==
    CASE x.t = "null" -> FALSE
      [] x.t = "bool" -> x.v = "true"
      [] x.t = "num" -> x.v \notin {"0", "0.0", "-0", "-0.0"}
      [] x.t = "str" -> x.v # << >>
      [] x.t = "arr" -> x.v # << >>
      [] x.t = "obj" -> DOMAIN x.v # {}

\* str(x) inside an f-string: text is itself, other values print as Python
\* prints them (containers by their repr, kept as one opaque fragment).
PyStr(x) ==
    CASE x.t = "str" -> x.v
      [] x.t = "num" -> << x.v >>
      [] x.t = "null" -> << "None" >>
      [] x.t = "bool" -> IF x.v = "true" THEN << "True" >> ELSE << "False" >>
      [] x.t = "arr" -> << "repr(list)" >>
      [] x.t = "obj" -> << "repr(dict)" >>

\* x in <a set of str>: hashes x, which raises for list and dict.
Hashable(x) == x.t \notin {"arr", "obj"}

(***************************************************************************)
(* Module constants and configuration.                                     *)
(***************************************************************************)
\* MCP_METHODS with one more name in it.
MCP_METHODS_with_templates ==
    { "initialize", "initialized", "ping", "notifications/cancelled",
      "notifications/progress", "notifications/message",
      "notifications/resources/updated",
      "notifications/resources/list_changed",
      "notifications/tools/list_changed",
      "notifications/prompts/list_changed", "resources/list",
      "resources/read", "resources/subscribe", "resources/unsubscribe",
      "resources/templates/list",
      "tools/list", "tools/call", "prompts/list", "prompts/get",
      "logging/setLevel", "sampling/createMessage", "completion/complete",
      "roots/list" }

MCP_METHODS ==
    { "initialize", "initialized", "ping", "notifications/cancelled",
      "notifications/progress", "notifications/message",
      "notifications/resources/updated",
      "notifications/resources/list_changed",
      "notifications/tools/list_changed",
      "notifications/prompts/list_changed", "resources/list",
      "resources/read", "resources/subscribe", "resources/unsubscribe",
      "tools/list", "tools/call", "prompts/list", "prompts/get",
      "logging/setLevel", "sampling/createMessage", "completion/complete",
      "roots/list" }

\* Values MCP_OPA_MODE and MCP_POLICY_FAIL_MODE may be given in the
\* environment: the documented ones and one other each.
OpaModes == {"cli", "server", "remote"}
FailModes == {"closed", "open", "OPEN"}

VARIABLES
    OPA_MODE,          \* module global, read once from the environment
    POLICY_FAIL_MODE,  \* module global, read once from the environment
    request_count,     \* MCPLogger.request_count
    loop,              \* the flow whose hook the event loop is running, or 0
    pc,                \* per flow: where the exchange is
    request,           \* per flow: flow.request (method, url, headers, content)
    response,          \* per flow: flow.response (status, headers, content)
    outcome,           \* per flow: how the request hook ended
    policy_error,      \* per flow: the result of the hook's check_policy call
    evals,             \* per flow: evaluator invocations made for it
    counted,           \* per flow: request_count increments made for it
    server_got,        \* per flow: the request the tool server received
    logged,            \* per flow: the blocks printed for it
    raised,            \* per flow: the exceptions its hooks let escape
    opa_got,           \* per flow: the bytes the policy engine was sent
    opa_run            \* per flow: what the policy engine did in answer

vars ==
    << OPA_MODE, POLICY_FAIL_MODE, request_count, loop, pc, request, response,
       outcome, policy_error, evals, counted, server_got, logged, raised,
       opa_got, opa_run >>

(***************************************************************************)
(* is_mcp_traffic                                                          *)
(***************************************************************************)
\* "method in MCP_METHODS"
InMcpMethods(method) == method.t = "str" /\ Len(method.v) = 1 /\ method.v[1] \in MCP_METHODS

\* The body of the try block, for a parsed body.
is_mcp_body(body) ==
    IF IsDict(body)
    THEN IF HasKey(body, "jsonrpc") /\ IsStr(DictGet(body, "jsonrpc", PyNone), "2.0")
         THEN LET method == DictGet(body, "method", JEmptyStr)
              IN  IF ~Hashable(method) THEN Raise("TypeError")
                  ELSE IF InMcpMethods(method) \/ HasKey(body, "result")
                          \/ HasKey(body, "error")
                       THEN Ret(JTrue)
                       ELSE Ret(JFalse)
         ELSE Ret(JFalse)
    ELSE IF IsList(body) /\ Len(body.v) > 0
    THEN LET first == body.v[1]
         IN  IF IsDict(first) /\ IsStr(DictGet(first, "jsonrpc", PyNone), "2.0")
             THEN Ret(JTrue)
             ELSE Ret(JFalse)
    ELSE Ret(JFalse)

\* is_mcp_traffic with an except clause that names JSONDecodeError only.
is_mcp_traffic_catching_json_only(bytes) ==
    IF bytes = << >> THEN Ret(JFalse)
    ELSE LET parsed == Loads(bytes)
         IN  IF parsed.exc = "JSONDecodeError" THEN Ret(JFalse)
             ELSE IF Raised(parsed) THEN parsed
             ELSE is_mcp_body(parsed.val)

is_mcp_traffic(bytes) ==
    IF bytes = << >> THEN Ret(JFalse)
    ELSE LET parsed == Loads(bytes)
         IN  IF parsed.exc \in {"JSONDecodeError", "UnicodeDecodeError"} THEN Ret(JFalse)
             ELSE is_mcp_body(parsed.val)

(***************************************************************************)
(* build_opa_input                                                         *)
(***************************************************************************)
\* build_opa_input with params.get("name") left without its default.
build_opa_input_no_default(body) ==
    IF ~IsDict(body) THEN Raise("AttributeError")
    ELSE IF ~IsStr(DictGet(body, "method", PyNone), "tools/call") THEN Ret(PyNone)
    ELSE LET params == DictGet(body, "params", EmptyDict)
         IN  IF ~IsDict(params) THEN Raise("AttributeError")
             ELSE Ret(JObj( "tool_name" :> DictGet(params, "name", PyNone)
                         @@ "tool_input" :> DictGet(params, "arguments", EmptyDict)))

build_opa_input(body) ==
    IF ~IsDict(body) THEN Raise("AttributeError")
    ELSE IF ~IsStr(DictGet(body, "method", PyNone), "tools/call") THEN Ret(PyNone)
    ELSE LET params == DictGet(body, "params", EmptyDict)
         IN  IF ~IsDict(params) THEN Raise("AttributeError")
             ELSE Ret(JObj( "tool_name" :> DictGet(params, "name", JEmptyStr)
                         @@ "tool_input" :> DictGet(params, "arguments", EmptyDict)))

(***************************************************************************)
(* What the policy engine does in one evaluation, as the evaluator sees    *)
(* it.  opa CLI: the binary is missing, the run exceeds the timeout, or it *)
(* exits with rc and stdout/stderr.  OPA server: urlopen raises URLError   *)
(* (refused connection, HTTP error status, timeout while connecting or     *)
(* sending), the read of the response times out (a bare TimeoutError, not  *)
(* a URLError), or a response body arrives.                                *)
(***************************************************************************)
CliRun(kind, rc, out, err) == [kind |-> kind, rc |-> rc, out |-> out, err |-> err]
SrvRun(kind, out) == [kind |-> kind, rc |-> "0", out |-> out, err |-> << >>]

(***************************************************************************)
(* evaluate_policy_cli                                                     *)
(***************************************************************************)
evaluate_policy_cli(opa_input, run) ==
    CASE run.kind = "notfound" ->
            RaiseMsg("RuntimeError", << "opa binary not found on PATH" >>)
      [] run.kind = "timeout" ->
            RaiseMsg("RuntimeError", << "opa eval timed out after 5s" >>)
      [] OTHER ->
            \* text=True decodes the captured output inside subprocess.run
            IF \E i \in 1 .. Len(run.out) : run.out[i].t = "badutf8"
            THEN Raise("UnicodeDecodeError")
            ELSE IF run.rc # "0"
            THEN RaiseMsg("RuntimeError",
                          << "opa eval failed (rc=", run.rc, "): " >> \o run.err)
            ELSE LET parsed == Loads(run.out)
                 IN  IF parsed.exc = "JSONDecodeError"
                     THEN RaiseMsg("RuntimeError",
                                   << "Failed to parse opa output: " >> \o parsed.msg)
                     ELSE parsed

(***************************************************************************)
(* evaluate_policy_server                                                  *)
(***************************************************************************)
evaluate_policy_server(opa_input, run) ==
    CASE run.kind = "urlerror" ->
            RaiseMsg("RuntimeError", << "OPA server request failed: ", "URLError" >>)
      [] run.kind = "readtimeout" -> Raise("TimeoutError")
      [] OTHER ->
            LET parsed == Loads(run.out)
            IN  IF parsed.exc = "JSONDecodeError"
                THEN RaiseMsg("RuntimeError",
                              << "Failed to parse OPA server response: " >> \o parsed.msg)
                ELSE IF Raised(parsed) THEN parsed
                ELSE IF ~IsDict(parsed.val) THEN Raise("AttributeError")
                ELSE Ret(DictGet(parsed.val, "result", parsed.val))

(***************************************************************************)
(* check_policy: None (allow) or the error message (deny); run is what the *)
(* policy engine does if it is asked.                                      *)
(***************************************************************************)
\* evaluate_under with the fail-mode compared without regard to case.
evaluate_under_ignoring_case(mode, fail_mode, opa_input, run) ==
    LET r == IF mode = "server" THEN evaluate_policy_server(opa_input, run)
             ELSE evaluate_policy_cli(opa_input, run)
    IN  IF r.exc = "RuntimeError"
        THEN IF fail_mode \in {"open", "OPEN"} THEN [r EXCEPT !.exc = "fail-open"]
             ELSE [r EXCEPT !.exc = "fail-closed"]
        ELSE r

\* Lines 167-176: the evaluator call and the handling of RuntimeError, with
\* OPA_MODE = mode and POLICY_FAIL_MODE = fail_mode.
evaluate_under(mode, fail_mode, opa_input, run) ==
    LET r == IF mode = "server" THEN evaluate_policy_server(opa_input, run)
             ELSE evaluate_policy_cli(opa_input, run)
    IN  IF r.exc = "RuntimeError"
        THEN IF fail_mode = "open" THEN [r EXCEPT !.exc = "fail-open"]
             ELSE [r EXCEPT !.exc = "fail-closed"]
        ELSE r

evaluate(opa_input, run) == evaluate_under(OPA_MODE, POLICY_FAIL_MODE, opa_input, run)

\* read_decision returning the policy's reason alone as the deny message.
read_decision_bare_reason(decision) ==
    IF ~IsDict(decision) THEN Raise("AttributeError")
    ELSE LET hook_output == DictGet(decision, "hookSpecificOutput", EmptyDict)
         IN  IF ~IsDict(hook_output) THEN Raise("AttributeError")
             ELSE LET permission == DictGet(hook_output, "permissionDecision", JStr("deny"))
                      reason == DictGet(hook_output, "permissionDecisionReason",
                                        JStr("Request denied by policy."))
                  IN  IF IsStr(permission, "allow") THEN Ret(PyNone)
                      ELSE Ret(JText(PyStr(reason)))

\* read_decision with a missing permissionDecision read as "allow".
read_decision_default_allow(decision) ==
    IF ~IsDict(decision) THEN Raise("AttributeError")
    ELSE LET hook_output == DictGet(decision, "hookSpecificOutput", EmptyDict)
         IN  IF ~IsDict(hook_output) THEN Raise("AttributeError")
             ELSE LET permission == DictGet(hook_output, "permissionDecision", JStr("allow"))
                      reason == DictGet(hook_output, "permissionDecisionReason",
                                        JStr("Request denied by policy."))
                  IN  IF IsStr(permission, "allow") THEN Ret(PyNone)
                      ELSE Ret(JText(<< "Policy violation: " >> \o PyStr(reason)))

\* Lines 178-188: the reading of the decision.
read_decision(decision) ==
    IF ~IsDict(decision) THEN Raise("AttributeError")
    ELSE LET hook_output == DictGet(decision, "hookSpecificOutput", EmptyDict)
         IN  IF ~IsDict(hook_output) THEN Raise("AttributeError")
             ELSE LET permission == DictGet(hook_output, "permissionDecision", JStr("deny"))
                      reason == DictGet(hook_output, "permissionDecisionReason",
                                        JStr("Request denied by policy."))
                  IN  IF IsStr(permission, "allow") THEN Ret(PyNone)
                      ELSE Ret(JText(<< "Policy violation: " >> \o PyStr(reason)))

\* check_policy with OPA_MODE = mode and POLICY_FAIL_MODE = fail_mode.
check_policy_under(mode, fail_mode, body, run) ==
    LET opa_input == build_opa_input(body)
    IN  IF Raised(opa_input) THEN opa_input
        ELSE IF opa_input.val.t = "null" THEN Ret(PyNone)
        ELSE LET r == evaluate_under(mode, fail_mode, opa_input.val, run)
             IN  CASE r.exc = "fail-open" -> Ret(PyNone)
                   [] r.exc = "fail-closed" ->
                        Ret(JText(<< "Policy evaluation error (fail-closed): " >> \o r.msg))
                   [] r.exc # "none" -> r
                   [] OTHER -> read_decision(r.val)

check_policy(body, run) == check_policy_under(OPA_MODE, POLICY_FAIL_MODE, body, run)

(***************************************************************************)
(* Inputs: request bodies a client may send.                               *)
(***************************************************************************)
Rpc(f) == JObj(("jsonrpc" :> JStr("2.0")) @@ f)
Call(f) == Rpc(("method" :> JStr("tools/call")) @@ f)

ScenarioA ==
    Call("id" :> JNum("1")
         @@ "params" :> JObj("name" :> JStr("send_message")
                             @@ "arguments" :> JObj("recipient" :> JStr("x@evil.com"))))
CallId42 == Call("id" :> JNum("42") @@ "params" :> JObj("name" :> JStr("create_draft")))
CallNoParams == Call(<< >>)
CallEmptyParams == Call("id" :> JStr("abc") @@ "params" :> EmptyDict)
CallIdNull == Call("id" :> JNull @@ "params" :> JObj("name" :> JEmptyStr))
CallParamsNull == Call("id" :> JNum("7") @@ "params" :> JNull)
CallParamsList == Call("id" :> JNum("8") @@ "params" :> JArr(<< JStr("send_message") >>))
Ping == Rpc("id" :> JNum("2") @@ "method" :> JStr("ping"))
Progress == Rpc("method" :> JStr("notifications/progress") @@ "params" :> EmptyDict)

RequestValues ==
    << ScenarioA, CallId42, CallNoParams, CallEmptyParams, CallIdNull,
       CallParamsNull, CallParamsList, Ping, Progress,
       Rpc("id" :> JNum("3") @@ "method" :> JStr("tools/list")),
       Rpc("id" :> JNum("3") @@ "method" :> JStr("unknown/method")),
       Rpc("id" :> JNum("3") @@ "method" :> JStr("unknown/method") @@ "result" :> EmptyDict),
       Rpc("id" :> JNum("4") @@ "result" :> JObj("code" :> JNum("0"))),
       Rpc("id" :> JNum("4") @@ "error" :> JObj("code" :> JNum("-32601"))),
       Rpc("id" :> JNum("5")),
       Rpc("method" :> JArr(<< JStr("tools/call") >>)),
       Rpc("method" :> EmptyDict @@ "result" :> JNum("1")),
       Rpc("method" :> JNum("7")),
       Rpc("method" :> JNum("7") @@ "result" :> JNull),
       Rpc("method" :> JNull @@ "error" :> JNull),
       JObj("jsonrpc" :> JStr("1.0") @@ "method" :> JStr("tools/call")),
       JObj("jsonrpc" :> JNum("2.0") @@ "method" :> JStr("tools/call")),
       JObj("method" :> JStr("tools/call") @@ "id" :> JNum("6")),
       EmptyDict,
       JArr(<< ScenarioA >>),
       JArr(<< Ping >>),
       JArr(<< Ping, ScenarioA >>),
       JArr(<< Rpc(<< >>), JNum("1") >>),
       JArr(<< >>),
       JArr(<< JNum("1"), Ping >>),
       JArr(<< JObj("jsonrpc" :> JStr("1.0") @@ "method" :> JStr("ping")) >>),
       JArr(<< JArr(<< Ping >>) >>),
       JStr("tools/call"), JNum("5"), JNull, JTrue >>

\* Bodies that are no JSON text.
MalformedBodies ==
    << << >>,
       << Junk >>,
       SubSeq(Dumps(ScenarioA), 1, Len(Dumps(ScenarioA)) - 1),
       Dumps(ScenarioA) \o Dumps(Ping),
       << P("{"), Tok("str", << "jsonrpc" >>), P("}") >>,
       << BadUtf8 >>,
       << P("["), BadUtf8, P("]") >> >>

JsonHeaders == << << "Content-Type", "application/json" >> >>
HttpRequest(method, body) ==
    [ method |-> method, url |-> "http://127.0.0.1:8000/mcp",
      headers |-> JsonHeaders, content |-> body ]

Requests ==
    [i \in 1 .. Len(RequestValues) |-> HttpRequest("POST", Dumps(RequestValues[i]))]
    \o [i \in 1 .. Len(MalformedBodies) |-> HttpRequest("POST", MalformedBodies[i])]
    \o << HttpRequest("GET", << >>) >>

(***************************************************************************)
(* Inputs: what the policy engine answers.                                 *)
(***************************************************************************)
Hook(f) == JObj("hookSpecificOutput" :> JObj(f))
Perm(p) == "permissionDecision" :> JStr(p)
Reason(r) == "permissionDecisionReason" :> r

Decisions ==
    << Hook(Perm("allow")),
       Hook(Perm("allow") @@ Reason(JStr("on the allow list"))),
       Hook(Perm("deny") @@ Reason(JStr("R"))),
       Hook(Perm("deny")),
       Hook(Perm("deny") @@ Reason(JEmptyStr)),
       Hook(Perm("deny") @@ Reason(JNum("5"))),
       Hook(Perm("ask") @@ Reason(JStr("needs review"))),
       Hook(Perm("ALLOW")),
       Hook("permissionDecision" :> JTrue),
       Hook(Reason(JStr("no decision"))),
       Hook(<< >>),
       EmptyDict,
       JObj("hookSpecificOutput" :> JNull),
       JObj("hookSpecificOutput" :> JArr(<< JStr("allow") >>)),
       JObj("hookSpecificOutput" :> JStr("allow")),
       JArr(<< >>), JArr(<< Hook(Perm("allow")) >>), JStr("allow"), JNum("1"),
       JNull, JTrue >>

NotJson ==
    << << >>, << Junk >>,
       SubSeq(Dumps(Hook(Perm("allow"))), 1, 4),
       Dumps(Hook(Perm("allow"))) \o << Junk >> >>
NotUtf8 == << << BadUtf8 >>, << P("{"), BadUtf8, P("}") >> >>

CliRuns ==
    << CliRun("notfound", "0", << >>, << >>),
       CliRun("timeout", "0", << >>, << >>),
       CliRun("exit", "1", << >>, << "rego_parse_error" >>),
       CliRun("exit", "2", Dumps(Hook(Perm("allow"))), << >>) >>
    \o [i \in 1 .. Len(Decisions) |-> CliRun("exit", "0", Dumps(Decisions[i]), << >>)]
    \o [i \in 1 .. Len(NotJson) |-> CliRun("exit", "0", NotJson[i], << >>)]
    \o [i \in 1 .. Len(NotUtf8) |-> CliRun("exit", "0", NotUtf8[i], << >>)]

ServerRuns ==
    << SrvRun("urlerror", << >>), SrvRun("readtimeout", << >>) >>
    \o [i \in 1 .. Len(Decisions) |->
            SrvRun("body", Dumps(JObj("result" :> Decisions[i])))]
    \o [i \in 1 .. Len(Decisions) |-> SrvRun("body", Dumps(Decisions[i]))]
    \o [i \in 1 .. Len(NotJson) |-> SrvRun("body", NotJson[i])]
    \o [i \in 1 .. Len(NotUtf8) |-> SrvRun("body", NotUtf8[i])]

\* The runs the configured strategy can meet.
Runs == IF OPA_MODE = "server" THEN ServerRuns ELSE CliRuns
NoRun == CliRun("none", "0", << >>, << >>)

\* What the tool server may answer.
ServerResponses ==
    << [status |-> 200, headers |-> JsonHeaders,
        content |-> Dumps(Rpc("id" :> JNum("1") @@ "result" :> EmptyDict))],
       [status |-> 200, headers |-> << << "Content-Type", "text/html" >> >>,
        content |-> << Junk >>],
       [status |-> 404, headers |-> << >>, content |-> << >>] >>

(***************************************************************************)
(* The addon and the proxy engine around it.  mitmproxy runs the hooks of  *)
(* an addon on one event loop: request() and response() are plain (not     *)
(* async) functions, so a hook runs from its call to its return or raise   *)
(* with no other hook in between; loop names the flow whose hook is        *)
(* running.  An exception that escapes a hook is logged by the engine,     *)
(* and the flow goes on as if the hook had returned.                       *)
(***************************************************************************)
NoRequest == [method |-> "", url |-> "", headers |-> << >>, content |-> << >>]
NoResponse == [status |-> 0, headers |-> << >>, content |-> << >>]
NotCalled == [exc |-> "not-called", val |-> JNull, msg |-> << >>]

Init ==
    /\ OPA_MODE \in OpaModes
    /\ POLICY_FAIL_MODE \in FailModes
    /\ request_count = 0
    /\ loop = 0
    /\ pc = [f \in Flows |-> "idle"]
    /\ request = [f \in Flows |-> NoRequest]
    /\ response = [f \in Flows |-> NoResponse]
    /\ outcome = [f \in Flows |-> "none"]
    /\ policy_error = [f \in Flows |-> NotCalled]
    /\ evals = [f \in Flows |-> 0]
    /\ counted = [f \in Flows |-> 0]
    /\ server_got = [f \in Flows |-> NoRequest]
    /\ logged = [f \in Flows |-> << >>]
    /\ raised = [f \in Flows |-> << >>]
    /\ opa_got = [f \in Flows |-> << >>]
    /\ opa_run = [f \in Flows |-> NoRun]

\* No exchange is in the proxy.
Quiet == \A g \in Flows : pc[g] = "idle"

\* A client sends request number i; exchanges are delivered one at a time.
Arrive(f, i) ==
    /\ Quiet
    /\ request_count < MaxCount
    /\ pc' = [pc EXCEPT ![f] = "arrived"]
    /\ request' = [request EXCEPT ![f] = Requests[i]]
    /\ UNCHANGED << OPA_MODE, POLICY_FAIL_MODE, request_count, loop, response, outcome,
                    policy_error, evals, counted, server_got, logged, raised,
                    opa_got, opa_run >>

\* error_response with the request's id left out of the reply.
error_response_without_id(body, message) ==
    JObj("jsonrpc" :> JStr("2.0")
         @@ "id" :> PyNone
         @@ "error" :> JObj("code" :> JNum("-32600") @@ "message" :> message))

\* The response built for a denied request.
error_response(body, message) ==
    JObj("jsonrpc" :> JStr("2.0")
         @@ "id" :> DictGet(body, "id", PyNone)
         @@ "error" :> JObj("code" :> JNum("-32600") @@ "message" :> message))

\* The reply is built but never assigned to flow.response.
MakeErrorResponse_unassigned(body, message) == NoResponse

\* http.Response.make(200, json.dumps(error_response), {"Content-Type": ...})
MakeErrorResponse(body, message) ==
    [ status |-> 200, headers |-> JsonHeaders,
      content |-> Dumps(error_response(body, message)) ]

\* request() with the body of a classified request cleared by the hook.
RequestHook_clearing_content(f) ==
    /\ pc[f] = "arrived"
    /\ loop = 0
    /\ LET mcp == is_mcp_traffic(request[f].content)
       IN  IF Raised(mcp)
           THEN /\ raised' = [raised EXCEPT ![f] = Append(@, << "request", mcp.exc >>)]
                /\ outcome' = [outcome EXCEPT ![f] = "Fault"]
                /\ pc' = [pc EXCEPT ![f] = "hooked"]
                /\ UNCHANGED << request_count, counted, loop, request >>
           ELSE IF ~Truthy(mcp.val)
           THEN /\ outcome' = [outcome EXCEPT ![f] = "PassThrough"]
                /\ pc' = [pc EXCEPT ![f] = "hooked"]
                /\ UNCHANGED << request_count, counted, loop, raised, request >>
           ELSE /\ request_count' = request_count + 1
                /\ counted' = [counted EXCEPT ![f] = @ + 1]
                /\ pc' = [pc EXCEPT ![f] = "counted"]
                /\ loop' = f
                /\ request' = [request EXCEPT ![f].content = << >>]
                /\ UNCHANGED << outcome, raised >>
    /\ UNCHANGED << OPA_MODE, POLICY_FAIL_MODE, response, policy_error, evals,
                    server_got, logged, opa_got, opa_run >>

\* MCPLogger.request up to the counter: lines 214-219.
RequestHook(f) ==
    /\ pc[f] = "arrived"
    /\ loop = 0
    /\ LET mcp == is_mcp_traffic(request[f].content)
       IN  IF Raised(mcp)
           THEN /\ raised' = [raised EXCEPT ![f] = Append(@, << "request", mcp.exc >>)]
                /\ outcome' = [outcome EXCEPT ![f] = "Fault"]
                /\ pc' = [pc EXCEPT ![f] = "hooked"]
                /\ UNCHANGED << request_count, counted, loop >>
           ELSE IF ~Truthy(mcp.val)
           THEN /\ outcome' = [outcome EXCEPT ![f] = "PassThrough"]
                /\ pc' = [pc EXCEPT ![f] = "hooked"]
                /\ UNCHANGED << request_count, counted, loop, raised >>
           ELSE /\ request_count' = request_count + 1
                /\ counted' = [counted EXCEPT ![f] = @ + 1]
                /\ pc' = [pc EXCEPT ![f] = "counted"]
                /\ loop' = f
                /\ UNCHANGED << outcome, raised >>
    /\ UNCHANGED << OPA_MODE, POLICY_FAIL_MODE, request, response, policy_error, evals,
                    server_got, logged, opa_got, opa_run >>

\* The rest of MCPLogger.request once check_policy has ended with r:
\* lines 226-265.
FinishRequest(f, body, r) ==
    /\ pc' = [pc EXCEPT ![f] = "hooked"]
    /\ loop' = 0
    /\ policy_error' = [policy_error EXCEPT ![f] = r]
    /\ IF r.exc \in {"JSONDecodeError", "UnicodeDecodeError"}
       THEN \* except (...): pass -- then the request is logged
            /\ outcome' = [outcome EXCEPT ![f] = "Unchecked"]
            /\ logged' = [logged EXCEPT ![f] = Append(@, << "MCP REQUEST", request_count >>)]
            /\ UNCHANGED << response, raised >>
       ELSE IF Raised(r)
       THEN /\ outcome' = [outcome EXCEPT ![f] = "Fault"]
            /\ raised' = [raised EXCEPT ![f] = Append(@, << "request", r.exc >>)]
            /\ UNCHANGED << response, logged >>
       ELSE IF Truthy(r.val)
       THEN /\ outcome' = [outcome EXCEPT ![f] = "Deny"]
            /\ response' = [response EXCEPT ![f] = MakeErrorResponse(body, r.val)]
            /\ logged' = [logged EXCEPT ![f] = Append(@, << "POLICY VIOLATION", request_count >>)]
            /\ UNCHANGED raised
       ELSE /\ outcome' = [outcome EXCEPT ![f] = "Allow"]
            /\ logged' = [logged EXCEPT ![f] = Append(@, << "MCP REQUEST", request_count >>)]
            /\ UNCHANGED << response, raised >>

\* What the evaluator hands the policy engine: the subject on the stdin of
\* opa eval (line 112), or {"input": subject} as the POST body (line 139).
EvaluatorInput(opa_input) ==
    IF OPA_MODE = "server" THEN Dumps(JObj("input" :> opa_input))
    ELSE Dumps(opa_input)

\* Lines 223-225, up to the call of the evaluator inside check_policy.
CheckPolicy(f) ==
    /\ pc[f] = "counted"
    /\ loop = f
    /\ LET parsed == Loads(request[f].content)
           opa_input == build_opa_input(parsed.val)
       IN  IF Raised(parsed)
           THEN FinishRequest(f, parsed.val, parsed) /\ UNCHANGED << evals, opa_got >>
           ELSE IF Raised(opa_input) \/ opa_input.val.t = "null"
           THEN FinishRequest(f, parsed.val, check_policy(parsed.val, NoRun))
                /\ UNCHANGED << evals, opa_got >>
           ELSE /\ pc' = [pc EXCEPT ![f] = "evaluating"]
                /\ evals' = [evals EXCEPT ![f] = @ + 1]
                /\ opa_got' = [opa_got EXCEPT ![f] = EvaluatorInput(opa_input.val)]
                /\ UNCHANGED << loop, policy_error, outcome, response, logged, raised >>
    /\ UNCHANGED << OPA_MODE, POLICY_FAIL_MODE, request_count, request, counted,
                    server_got, opa_run >>

\* The evaluator call ends, the policy engine having done one of the runs,
\* and the hook runs to its end.
EvaluateRun(f, run) ==
    /\ pc[f] = "evaluating"
    /\ loop = f
    /\ LET body == Loads(request[f].content).val
       IN  FinishRequest(f, body, check_policy(body, run))
    /\ opa_run' = [opa_run EXCEPT ![f] = run]
    /\ UNCHANGED << OPA_MODE, POLICY_FAIL_MODE, request_count, request, evals, counted,
                    server_got, opa_got >>

Evaluate(f) == \E i \in 1 .. Len(Runs) : EvaluateRun(f, Runs[i])

\* The engine after the request hook: no response was set, so the request
\* goes to the tool server.
Forward(f) ==
    /\ pc[f] = "hooked"
    /\ response[f] = NoResponse
    /\ server_got' = [server_got EXCEPT ![f] = request[f]]
    /\ pc' = [pc EXCEPT ![f] = "forwarded"]
    /\ UNCHANGED << OPA_MODE, POLICY_FAIL_MODE, request_count, loop, request, response,
                    outcome, policy_error, evals, counted, logged, raised, opa_got,
                    opa_run >>

\* The engine after the request hook: the hook set a response, which is
\* the exchange's response; no connection to the tool server is made.
Reply(f) ==
    /\ pc[f] = "hooked"
    /\ response[f] # NoResponse
    /\ pc' = [pc EXCEPT ![f] = "responded"]
    /\ UNCHANGED << OPA_MODE, POLICY_FAIL_MODE, request_count, loop, request, response,
                    outcome, policy_error, evals, counted, server_got, logged, raised,
                    opa_got, opa_run >>

\* The tool server answers a forwarded request.
ServerResponds(f, i) ==
    /\ pc[f] = "forwarded"
    /\ response' = [response EXCEPT ![f] = ServerResponses[i]]
    /\ pc' = [pc EXCEPT ![f] = "responded"]
    /\ UNCHANGED << OPA_MODE, POLICY_FAIL_MODE, request_count, loop, request, outcome,
                    policy_error, evals, counted, server_got, logged, raised, opa_got,
                    opa_run >>

\* a or b on two calls that may raise: b is evaluated only if a is false.
OrElse(a, b) == IF Raised(a) \/ Truthy(a.val) THEN a ELSE b

\* response() with the counter also incremented for a logged response.
ResponseHook_counting(f) ==
    /\ pc[f] = "responded"
    /\ loop = 0
    /\ LET mcp == OrElse(is_mcp_traffic(request[f].content),
                         is_mcp_traffic(response[f].content))
       IN  IF Raised(mcp)
           THEN /\ raised' = [raised EXCEPT ![f] = Append(@, << "response", mcp.exc >>)]
                /\ UNCHANGED << logged, request_count >>
           ELSE IF Truthy(mcp.val)
           THEN /\ logged' = [logged EXCEPT ![f] = Append(@, << "MCP RESPONSE", response[f].status >>)]
                /\ request_count' = request_count + 1
                /\ UNCHANGED raised
           ELSE UNCHANGED << logged, raised, request_count >>
    /\ pc' = [pc EXCEPT ![f] = "done"]
    /\ UNCHANGED << OPA_MODE, POLICY_FAIL_MODE, loop, request, response,
                    outcome, policy_error, evals, counted, server_got, opa_got, opa_run >>

\* MCPLogger.response: lines 267-290.
ResponseHook(f) ==
    /\ pc[f] = "responded"
    /\ loop = 0
    /\ LET mcp == OrElse(is_mcp_traffic(request[f].content),
                         is_mcp_traffic(response[f].content))
       IN  IF Raised(mcp)
           THEN /\ raised' = [raised EXCEPT ![f] = Append(@, << "response", mcp.exc >>)]
                /\ UNCHANGED logged
           ELSE IF Truthy(mcp.val)
           THEN /\ logged' = [logged EXCEPT ![f] = Append(@, << "MCP RESPONSE", response[f].status >>)]
                /\ UNCHANGED raised
           ELSE UNCHANGED << logged, raised >>
    /\ pc' = [pc EXCEPT ![f] = "done"]
    /\ UNCHANGED << OPA_MODE, POLICY_FAIL_MODE, request_count, loop, request, response,
                    outcome, policy_error, evals, counted, server_got, opa_got, opa_run >>

\* The response has gone to the client and the engine drops the flow.
Retire(f) ==
    /\ pc[f] = "done"
    /\ pc' = [pc EXCEPT ![f] = "idle"]
    /\ request' = [request EXCEPT ![f] = NoRequest]
    /\ response' = [response EXCEPT ![f] = NoResponse]
    /\ outcome' = [outcome EXCEPT ![f] = "none"]
    /\ policy_error' = [policy_error EXCEPT ![f] = NotCalled]
    /\ evals' = [evals EXCEPT ![f] = 0]
    /\ counted' = [counted EXCEPT ![f] = 0]
    /\ server_got' = [server_got EXCEPT ![f] = NoRequest]
    /\ logged' = [logged EXCEPT ![f] = << >>]
    /\ raised' = [raised EXCEPT ![f] = << >>]
    /\ opa_got' = [opa_got EXCEPT ![f] = << >>]
    /\ opa_run' = [opa_run EXCEPT ![f] = NoRun]
    /\ UNCHANGED << OPA_MODE, POLICY_FAIL_MODE, request_count, loop >>

Next ==
    \E f \in Flows :
        \/ \E i \in 1 .. Len(Requests) : Arrive(f, i)
        \/ RequestHook(f)
        \/ CheckPolicy(f)
        \/ Evaluate(f)
        \/ Forward(f)
        \/ Reply(f)
        \/ \E i \in 1 .. Len(ServerResponses) : ServerResponds(f, i)
        \/ ResponseHook(f)
        \/ Retire(f)

Spec == Init /\ [][Next]_vars

(***************************************************************************)
(* Several exchanges in flight.  The engine delivers an exchange without   *)
(* waiting for the others to end; each flow carries one exchange.  The     *)
(* inputs are one tools/call, one batch and one request that is no         *)
(* protocol traffic; the policy engine allows, denies or fails.            *)
(***************************************************************************)
ConcRequests ==
    << HttpRequest("POST", Dumps(ScenarioA)),
       HttpRequest("POST", Dumps(JArr(<< Ping >>))),
       HttpRequest("GET", << >>) >>

ConcRuns ==
    IF OPA_MODE = "server"
    THEN << SrvRun("urlerror", << >>),
            SrvRun("body", Dumps(JObj("result" :> Hook(Perm("allow"))))),
            SrvRun("body", Dumps(JObj("result" :> Hook(Perm("deny") @@ Reason(JStr("R")))))) >>
    ELSE << CliRun("timeout", "0", << >>, << >>),
            CliRun("exit", "0", Dumps(Hook(Perm("allow"))), << >>),
            CliRun("exit", "0", Dumps(Hook(Perm("deny") @@ Reason(JStr("R")))), << >>) >>

\* A client sends request number i while other exchanges may be in flight.
ArriveConc(f, i) ==
    /\ pc[f] = "idle"
    /\ request_count < MaxCount
    /\ pc' = [pc EXCEPT ![f] = "arrived"]
    /\ request' = [request EXCEPT ![f] = ConcRequests[i]]
    /\ UNCHANGED << OPA_MODE, POLICY_FAIL_MODE, request_count, loop, response, outcome,
                    policy_error, evals, counted, server_got, logged, raised,
                    opa_got, opa_run >>

EvaluateConc(f) == \E i \in 1 .. Len(ConcRuns) : EvaluateRun(f, ConcRuns[i])

NextConc ==
    \E f \in Flows :
        \/ \E i \in 1 .. Len(ConcRequests) : ArriveConc(f, i)
        \/ RequestHook(f)
        \/ CheckPolicy(f)
        \/ EvaluateConc(f)
        \/ Forward(f)
        \/ Reply(f)
        \/ ServerResponds(f, 1)
        \/ ResponseHook(f)

\* The addon started with documented values of the two settings.
InitConc ==
    /\ Init
    /\ OPA_MODE \in {"cli", "server"}
    /\ POLICY_FAIL_MODE \in {"closed", "open"}

SpecConc == InitConc /\ [][NextConc]_vars

(***************************************************************************)
(* Vocabulary of the properties.                                           *)
(***************************************************************************)
\* The parse of the request body of flow f.
Body(f) == Loads(request[f].content)
\* The request hook of f has returned or raised.
HookEnded(f) == pc[f] \in {"hooked", "forwarded", "responded", "done"}
\* The request of f was classified as protocol traffic.
Classified(f) == counted[f] > 0
\* check_policy returned a deny message / returned None.
Denied(f) == policy_error[f].exc = "none" /\ policy_error[f].val.t = "str"
PolicyAllowed(f) == policy_error[f].exc = "none" /\ policy_error[f].val.t = "null"

IsToolCall(m) ==
    IsDict(m) /\ HasKey(m, "method") /\ IsStr(m.v["method"], "tools/call")
\* A tools/call message of the protocol: its params, if any, are a mapping.
IsValidToolCall(m) ==
    IsToolCall(m) /\ (HasKey(m, "params") => IsDict(m.v["params"]))
\* A single tools/call message, or a batch holding one.
ContainsToolCall(body) ==
    \/ IsToolCall(body)
    \/ IsList(body) /\ \E i \in 1 .. Len(body.v) : IsToolCall(body.v[i])

\* The evaluator failure kinds: executable not found, timeout, non-zero exit,
\* transport failure, output or response not parseable as JSON.
EvaluatorFailed(run) ==
    \/ run.kind \in {"notfound", "timeout", "urlerror", "readtimeout"}
    \/ run.kind = "exit" /\ run.rc # "0"
    \/ run.kind \in {"exit", "body"} /\ Raised(Loads(run.out))

(***************************************************************************)
(* C1: whenever check_policy yields Deny for a classified request, the     *)
(* request hook installs the synthesized reply as the exchange's response  *)
(* and the request never reaches the tool server.                          *)
(***************************************************************************)
C1_DeniedNeverForwarded ==
    \A f \in Flows :
        Denied(f) =>
            /\ outcome[f] = "Deny"
            /\ pc[f] \in {"hooked", "responded", "done"}
            /\ server_got[f] = NoRequest
            /\ response[f].status = 200
            /\ ~Raised(Loads(response[f].content))
            /\ HasKey(Loads(response[f].content).val, "error")

C1_Witness ==
    \E f \in Flows : Denied(f) /\ Classified(f) /\ pc[f] = "done"

(***************************************************************************)
(* C2: no classified request that carries a tools/call message, in either  *)
(* valid shape (a single object, or a non-empty batch of objects), reaches *)
(* the tool server unless check_policy was run on it and returned Allow    *)
(* (by the policy, or by an evaluator error under fail-open).              *)
(***************************************************************************)
CarriesValidToolCall(body) ==
    \/ IsValidToolCall(body)
    \/ /\ IsList(body)
       /\ \A i \in 1 .. Len(body.v) : IsDict(body.v[i])
       /\ \E i \in 1 .. Len(body.v) : IsValidToolCall(body.v[i])

C2_ToolCallsAreChecked ==
    \A f \in Flows :
        (server_got[f] # NoRequest /\ Classified(f) /\ CarriesValidToolCall(Body(f).val))
            => (evals[f] > 0 /\ PolicyAllowed(f))

(***************************************************************************)
(* C3: for a tools/call request, every evaluator failure of either         *)
(* strategy gives Deny with an evaluation-error reason and no forwarding   *)
(* under fail-mode closed, and Allow with the request forwarded unchanged  *)
(* under fail-mode open (where a request forwarded with no exception       *)
(* escaping the hook counts as allowed).                                   *)
(***************************************************************************)
C3_EvaluatorFailuresFollowFailMode ==
    \A f \in Flows :
        (HookEnded(f) /\ evals[f] > 0 /\ EvaluatorFailed(opa_run[f])) =>
            /\ POLICY_FAIL_MODE = "closed" =>
                    /\ outcome[f] = "Deny"
                    /\ server_got[f] = NoRequest
                    /\ Denied(f)
                    /\ Len(policy_error[f].val.v) > 0
                    /\ policy_error[f].val.v[1] = "Policy evaluation error (fail-closed): "
            /\ POLICY_FAIL_MODE = "open" =>
                    /\ outcome[f] \in {"Allow", "Unchecked"}
                    /\ pc[f] = "hooked" => response[f] = NoResponse
                    /\ pc[f] # "hooked" => server_got[f] = request[f]

(***************************************************************************)
(* C4: for every request body the request hook ends in pass-through, in    *)
(* allowed-and-forwarded or in a synthesized deny, and lets no exception   *)
(* escape.  (A request forwarded after a swallowed exception is counted    *)
(* with the forwarded ones.)                                               *)
(***************************************************************************)
C4_HookNeverFaults ==
    \A f \in Flows :
        HookEnded(f) =>
            /\ outcome[f] \in {"PassThrough", "Allow", "Deny", "Unchecked"}
            /\ \A i \in 1 .. Len(raised[f]) : raised[f][i][1] # "request"

(***************************************************************************)
(* C5: check_policy never raises: for every subject and every evaluator    *)
(* result it returns None (Allow) or a Deny reason string.                 *)
(***************************************************************************)
C5_CheckPolicyNeverRaises ==
    \A f \in Flows :
        (evals[f] > 0 /\ policy_error[f].exc # "not-called") =>
            /\ policy_error[f].exc = "none"
            /\ policy_error[f].val.t \in {"null", "str"}

(***************************************************************************)
(* C6: for a request whose content is empty or fails JSON parsing,         *)
(* is_mcp_traffic returns false without raising and the request hook       *)
(* passes the exchange through: it sets no response, leaves the request as *)
(* it is, does not increment the counter and does not invoke the           *)
(* evaluator; the engine then forwards the request unchanged.              *)
(***************************************************************************)
Unparseable(bytes) == bytes = << >> \/ Raised(Loads(bytes))

C6_UnparseablePassesThrough ==
    [][\A f \in Flows :
        /\ (pc[f] = "arrived" /\ pc'[f] # "arrived" /\ Unparseable(request[f].content)) =>
                /\ is_mcp_traffic(request[f].content) = Ret(JFalse)
                /\ pc'[f] = "hooked"
                /\ outcome'[f] = "PassThrough"
                /\ raised'[f] = << >>
                /\ response'[f] = NoResponse
                /\ request'[f] = request[f]
                /\ request_count' = request_count
                /\ counted'[f] = 0
                /\ evals'[f] = 0
                /\ opa_got'[f] = << >>
                /\ policy_error'[f] = NotCalled
                /\ logged'[f] = << >>
        /\ (pc[f] = "hooked" /\ pc'[f] # "hooked" /\ Unparseable(request[f].content)) =>
                /\ pc'[f] = "forwarded"
                /\ server_got'[f] = request[f]
      ]_vars

C6_Witness ==
    \E f \in Flows :
        /\ pc[f] = "forwarded"
        /\ request[f].content # << >>
        /\ Raised(Loads(request[f].content))
        /\ outcome[f] = "PassThrough"
        /\ server_got[f] = request[f]

(***************************************************************************)
(* C7: for every parsed JSON value is_mcp_traffic returns what the         *)
(* reference predicate says, whatever JSON type the method value has.      *)
(***************************************************************************)
RefIsProtocolTraffic(body) ==
    IF IsDict(body)
    THEN /\ HasKey(body, "jsonrpc")
         /\ IsStr(body.v["jsonrpc"], "2.0")
         /\ \/ /\ HasKey(body, "method")
               /\ body.v["method"].t = "str"
               /\ \E m \in MCP_METHODS : body.v["method"].v = << m >>
            \/ HasKey(body, "result")
            \/ HasKey(body, "error")
    ELSE IF IsList(body)
    THEN /\ Len(body.v) > 0
         /\ IsDict(body.v[1])
         /\ HasKey(body.v[1], "jsonrpc")
         /\ IsStr(body.v[1].v["jsonrpc"], "2.0")
    ELSE FALSE

C7_ClassifierMatchesReference ==
    \A f \in Flows :
        (pc[f] # "idle" /\ ~Raised(Body(f))) =>
            /\ is_mcp_traffic(request[f].content)
                  = Ret(IF RefIsProtocolTraffic(Body(f).val) THEN JTrue ELSE JFalse)
            /\ HookEnded(f) =>
                  (Classified(f) <=> RefIsProtocolTraffic(Body(f).val))

(***************************************************************************)
(* C8 as claimed: a denied request with id i gets status 200, the header   *)
(* Content-Type: application/json and a body that parses to exactly        *)
(* {jsonrpc: "2.0", id: i, error: {code: -32600, message: R}}, R being the *)
(* policy's permissionDecisionReason when the policy supplied one; a       *)
(* request without an id gets id null.                                     *)
(***************************************************************************)
\* The decision the policy engine gave in a run that succeeded.
DecisionOf(run) ==
    LET parsed == Loads(run.out).val
    IN  IF run.kind = "body" /\ IsDict(parsed) /\ HasKey(parsed, "result")
        THEN parsed.v["result"] ELSE parsed
ReasonSupplied(run) ==
    /\ ~EvaluatorFailed(run)
    /\ IsDict(DecisionOf(run))
    /\ HasKey(DecisionOf(run), "hookSpecificOutput")
    /\ IsDict(DecisionOf(run).v["hookSpecificOutput"])
    /\ HasKey(DecisionOf(run).v["hookSpecificOutput"], "permissionDecisionReason")
SuppliedReason(run) ==
    DecisionOf(run).v["hookSpecificOutput"].v["permissionDecisionReason"]

\* The reply the client is to get for request body b with message m.
DenyReply(b, m) ==
    Ret(JObj("jsonrpc" :> JStr("2.0")
             @@ "id" :> (IF HasKey(b, "id") THEN b.v["id"] ELSE JNull)
             @@ "error" :> JObj("code" :> JNum("-32600") @@ "message" :> m)))

IsDenyResponse(f, m) ==
    /\ response[f].status = 200
    /\ response[f].headers = << << "Content-Type", "application/json" >> >>
    /\ Loads(response[f].content) = DenyReply(Body(f).val, m)

C8_MessageIsPolicyReason ==
    \A f \in Flows :
        outcome[f] = "Deny" =>
            IsDenyResponse(f, IF ReasonSupplied(opa_run[f]) THEN SuppliedReason(opa_run[f])
                              ELSE policy_error[f].val)

(***************************************************************************)
(* C8 as amended: the message of the reply is the deny message check_policy*)
(* returned: "Policy violation: " followed by the policy's                 *)
(* permissionDecisionReason when supplied and by "Request denied by        *)
(* policy." when not, or "Policy evaluation error (fail-closed): "         *)
(* followed by the evaluator error's text.  Status, header, id (null when  *)
(* the request has none) and code are as claimed.                          *)
(***************************************************************************)
PolicyDenyMessage(run) ==
    JText(<< "Policy violation: " >>
          \o (IF ReasonSupplied(run) THEN PyStr(SuppliedReason(run))
              ELSE << "Request denied by policy." >>))

C8_DenyResponseShape ==
    \A f \in Flows :
        outcome[f] = "Deny" =>
            /\ Denied(f)
            /\ IsDenyResponse(f, policy_error[f].val)
            /\ IF EvaluatorFailed(opa_run[f])
               THEN /\ POLICY_FAIL_MODE # "open"
                    /\ Len(policy_error[f].val.v) > 1
                    /\ policy_error[f].val.v[1] = "Policy evaluation error (fail-closed): "
               ELSE policy_error[f].val = PolicyDenyMessage(opa_run[f])

C8_Witness ==
    \E f \in Flows :
        /\ outcome[f] = "Deny"
        /\ pc[f] = "done"
        /\ request[f].content = Dumps(CallId42)
        /\ ReasonSupplied(opa_run[f])
        /\ SuppliedReason(opa_run[f]) = JStr("R")
        /\ Loads(response[f].content).val.v["id"] = JNum("42")

(***************************************************************************)
(* C9: build_opa_input returns None for every object message whose method  *)
(* is not "tools/call" (a message with no method included); for            *)
(* "tools/call" with params absent or a mapping it returns                 *)
(* {tool_name: params.name or "", tool_input: params.arguments or {}}, an  *)
(* empty tool_name included, and that subject is what the hook submits to  *)
(* the policy engine.                                                      *)
(***************************************************************************)
ExpectedSubject(body) ==
    LET params == IF HasKey(body, "params") THEN body.v["params"] ELSE JObj(<< >>)
    IN  JObj("tool_name" :> (IF HasKey(params, "name") THEN params.v["name"]
                             ELSE JText(<< >>))
             @@ "tool_input" :> (IF HasKey(params, "arguments") THEN params.v["arguments"]
                                 ELSE JObj(<< >>)))

C9_SubjectExtraction ==
    \A f \in Flows :
        (pc[f] # "idle" /\ ~Raised(Body(f)) /\ IsDict(Body(f).val)) =>
            LET body == Body(f).val
            IN  /\ ~IsToolCall(body) =>
                    /\ build_opa_input(body) = Ret(JNull)
                    /\ evals[f] = 0
                /\ IsValidToolCall(body) =>
                    /\ build_opa_input(body) = Ret(ExpectedSubject(body))
                    /\ (Classified(f) /\ pc[f] # "counted") => evals[f] = 1
                    /\ evals[f] > 0 =>
                          opa_got[f] = IF OPA_MODE = "server"
                                       THEN Dumps(JObj("input" :> ExpectedSubject(body)))
                                       ELSE Dumps(ExpectedSubject(body))

C9_Witness ==
    \E f \in Flows :
        /\ pc[f] = "evaluating"
        /\ Body(f).val = CallNoParams
        /\ opa_got[f] = Dumps(JObj("tool_name" :> JEmptyStr @@ "tool_input" :> EmptyDict))

(***************************************************************************)
(* C10: for every classified request whose message is not a tools/call,    *)
(* the outcome is Allow and the policy evaluator is never invoked,         *)
(* whatever the evaluation mode, the fail-mode and the evaluator's state.  *)
(***************************************************************************)
C10_NonToolCallsAllowed ==
    \A f \in Flows :
        (HookEnded(f) /\ Classified(f) /\ ~ContainsToolCall(Body(f).val)) =>
            /\ outcome[f] = "Allow"
            /\ PolicyAllowed(f)
            /\ evals[f] = 0

(***************************************************************************)
(* C11: when the evaluator succeeds with an object decision, check_policy  *)
(* yields Allow only if hookSpecificOutput.permissionDecision is exactly   *)
(* "allow"; a missing hookSpecificOutput, a missing permissionDecision or  *)
(* any other permissionDecision yields Deny, and the deny message carries  *)
(* the generic reason "Request denied by policy." when the decision        *)
(* supplies no permissionDecisionReason.                                   *)
(***************************************************************************)
\* The evaluator was called for f and handed back a JSON object.
ObjectDecision(f) ==
    /\ HookEnded(f)
    /\ evals[f] > 0
    /\ ~EvaluatorFailed(opa_run[f])
    /\ IsDict(DecisionOf(opa_run[f]))
\* hookSpecificOutput is absent from the decision, or is a mapping.
HookOutputAbsentOrMapping(run) ==
    HasKey(DecisionOf(run), "hookSpecificOutput")
        => IsDict(DecisionOf(run).v["hookSpecificOutput"])
\* hookSpecificOutput.permissionDecision is there and is the string "allow".
PermissionIsAllow(run) ==
    /\ HasKey(DecisionOf(run), "hookSpecificOutput")
    /\ IsDict(DecisionOf(run).v["hookSpecificOutput"])
    /\ HasKey(DecisionOf(run).v["hookSpecificOutput"], "permissionDecision")
    /\ IsStr(DecisionOf(run).v["hookSpecificOutput"].v["permissionDecision"], "allow")
GenericDenyMessage ==
    JText(<< "Policy violation: ", "Request denied by policy." >>)

InRequestHook(f) == pc[f] \in {"arrived", "counted", "evaluating"}

C12_HooksLeaveMessagesAlone ==
    [][ \A f \in Flows :
          /\ InRequestHook(f) => request'[f] = request[f]
          /\ (pc[f] = "hooked" /\ pc'[f] = "forwarded")
                => /\ request'[f] = request[f]
                   /\ server_got'[f] = request[f]
          /\ pc[f] = "responded"
                => /\ request'[f] = request[f]
                   /\ response'[f] = response[f]
                   /\ pc'[f] \in {"responded", "done"} ]_vars

\* An allowed tools/call went to the server as it arrived, and the response
\* hook has run on the server's answer.
C12_Witness ==
    \E f \in Flows :
        /\ pc[f] = "done"
        /\ outcome[f] = "Allow"
        /\ evals[f] > 0
        /\ server_got[f] = request[f]
        /\ request[f].content # << >>
        /\ response[f] = ServerResponses[1]
        /\ Len(logged[f]) = 2

(***************************************************************************)
(* C13: an exchange moves only Unclassified -> PassThrough, Unclassified   *)
(* -> Inspecting, Inspecting -> Allowed-and-Forwarded and Inspecting ->    *)
(* Denied-and-Answered; the counter is incremented only by the step that   *)
(* classifies, the evaluator is invoked only after the increment, and a    *)
(* request is forwarded or a reply synthesized only once the hook has      *)
(* ended; an exchange that leaves Inspecting leaves it for one of the two  *)
(* terminal states.                                                        *)
(***************************************************************************)
Unclassified(f) == pc[f] = "arrived"
Inspecting(f) == pc[f] \in {"counted", "evaluating"}

C13_OnlySpecifiedTransitions ==
    [][ \A f \in Flows :
          /\ (Unclassified(f) /\ ~Unclassified(f)')
                => \/ outcome'[f] = "PassThrough" /\ counted'[f] = 0
                   \/ Inspecting(f)' /\ counted'[f] = 1
          /\ (Inspecting(f) /\ ~Inspecting(f)')
                => \/ outcome'[f] = "Allow" /\ response'[f] = NoResponse
                   \/ outcome'[f] = "Deny" /\ response'[f] # NoResponse
          /\ counted'[f] > counted[f] => Unclassified(f)
          /\ evals'[f] > evals[f] => (Inspecting(f) /\ counted[f] = 1)
          /\ (server_got'[f] # server_got[f] /\ server_got'[f] # NoRequest)
                => (HookEnded(f) /\ outcome[f] \in {"PassThrough", "Allow"})
          /\ (response'[f] # response[f] /\ ~HookEnded(f))
                => (Inspecting(f) /\ outcome'[f] = "Deny") ]_vars

(***************************************************************************)
(* C14: while one exchange waits in policy evaluation, another exchange    *)
(* that has arrived can be classified and decided (its request hook can    *)
(* run), and one whose hook has ended can be forwarded or answered.        *)
(***************************************************************************)
C14_EvaluationDoesNotBlockOthers ==
    \A f, g \in Flows :
        (f # g /\ pc[f] = "evaluating") =>
            /\ pc[g] = "arrived" => ENABLED RequestHook(g)
            /\ pc[g] = "hooked" => ENABLED (Forward(g) \/ Reply(g))

(***************************************************************************)
(* C15: with exchanges delivered concurrently, the request counter never   *)
(* decreases and always equals the number of requests the classifier has   *)
(* classified as protocol traffic so far: one increment per classified     *)
(* request, whatever its later outcome, and none for other requests or     *)
(* for responses.                                                          *)
(***************************************************************************)
\* The classifier says the request is protocol traffic.
ClassifiedAsProtocol(req) ==
    LET mcp == is_mcp_traffic(req.content)
    IN  ~Raised(mcp) /\ Truthy(mcp.val)
\* The hook of a flow at position p has classified its request req as
\* protocol traffic.
CountsAsClassified(p, req) ==
    p \notin {"idle", "arrived"} /\ ClassifiedAsProtocol(req)
\* The flows whose request the hook has classified as protocol traffic.
ClassifiedSoFar == { f \in Flows : CountsAsClassified(pc[f], request[f]) }

\* After every step the counter is the number of flows classified so far
\* (initially it is 0 and no flow has a request).  A step that leaves a flow
\* past "arrived" leaves its request as it was, so the flows classified
\* after the step are told from pc' and request.
C15_CounterCountsClassified ==
    [][ /\ request_count' >= request_count
        /\ \A f \in Flows : pc'[f] \notin {"idle", "arrived"} => request'[f] = request[f]
        /\ LET after == { f \in Flows : CountsAsClassified(pc'[f], request[f]) }
               n == Cardinality(after)
           IN  /\ request_count' = n
               /\ n = Cardinality({ f \in Flows : counted'[f] = 1 })
               /\ \A f \in Flows : counted'[f] \in {0, 1}
               /\ \A f \in Flows : counted'[f] = 1 => pc'[f] \notin {"idle", "arrived"}
               /\ \A f \in Flows :
                      (counted'[f] = 1 /\ counted[f] = 0) => ClassifiedAsProtocol(request[f]) ]_vars

\* Two exchanges in flight have both been counted: one is still in
\* evaluation, the hook of the other has ended.
C15_Witness ==
    \E f, g \in Flows :
        /\ f # g
        /\ pc[f] = "evaluating"
        /\ counted[g] = 1
        /\ HookEnded(g)
        /\ request_count = 2
        /\ ClassifiedSoFar = {f, g}

(***************************************************************************)
(* C16: the policy evaluator is invoked at most once for a request; once   *)
(* that one call has failed the hook ends with no further call, and what   *)
(* check_policy returns then follows from the fail-mode alone: Allow under *)
(* fail-mode open, Deny otherwise.                                         *)
(***************************************************************************)
C16_SingleAttemptThenFailMode ==
    \A f \in Flows :
        /\ evals[f] <= 1
        /\ (HookEnded(f) /\ evals[f] = 1 /\ EvaluatorFailed(opa_run[f]))
              => IF POLICY_FAIL_MODE = "open" THEN PolicyAllowed(f) ELSE Denied(f)

(***************************************************************************)
(* C17: the response hook emits nothing for an exchange that ended         *)
(* Denied-and-Answered; response output exists only for an exchange whose  *)
(* request was forwarded to the tool server, the request having been       *)
(* classified or the response body being protocol traffic itself.          *)
(***************************************************************************)
\* The response hook printed its MCP RESPONSE block for f.
ResponseLogged(f) ==
    \E i \in 1 .. Len(logged[f]) : logged[f][i][1] = "MCP RESPONSE"

C17_NoResponseOutputForDenied ==
    \A f \in Flows :
        /\ outcome[f] = "Deny" => ~ResponseLogged(f)
        /\ ResponseLogged(f) =>
              /\ server_got[f] = request[f]
              /\ Classified(f) \/ ClassifiedAsProtocol(response[f])

(***************************************************************************)
(* C18: the known-method set the classifier uses is a fixed enumeration of *)
(* exactly 23 method names, with names for initialization, notifications,  *)
(* resources, tools, prompts, logging, sampling, completion and roots, and *)
(* it is the same set for every request.                                   *)
(***************************************************************************)
\* One name of each kind of operation the enumeration is to cover.
OneOfEachKind ==
    { "initialize", "notifications/progress", "resources/read", "tools/call",
      "prompts/get", "logging/setLevel", "sampling/createMessage",
      "completion/complete", "roots/list" }
\* The request of f is a JSON-RPC 2.0 object with a text method and neither
\* result nor error: the classifier's answer rests on the method set alone.
DecidedByMethod(f) ==
    /\ pc[f] \notin {"idle", "arrived"}
    /\ ~Raised(Body(f))
    /\ IsDict(Body(f).val)
    /\ HasKey(Body(f).val, "jsonrpc")
    /\ IsStr(Body(f).val.v["jsonrpc"], "2.0")
    /\ HasKey(Body(f).val, "method")
    /\ Body(f).val.v["method"].t = "str"
    /\ Len(Body(f).val.v["method"].v) = 1
    /\ ~HasKey(Body(f).val, "result")
    /\ ~HasKey(Body(f).val, "error")
\* The classifier's answers agree with membership in the enumeration.
ClassifierUsesMethodSet ==
    \A f \in Flows :
        DecidedByMethod(f) =>
            (Classified(f) <=> Body(f).val.v["method"].v[1] \in MCP_METHODS)

C18_TwentyThreeMethods ==
    /\ Cardinality(MCP_METHODS) = 23
    /\ OneOfEachKind \subseteq MCP_METHODS
    /\ ClassifierUsesMethodSet

(***************************************************************************)
(* C18 as amended: the enumeration has exactly 22 method names; the rest   *)
(* is as claimed.                                                          *)
(***************************************************************************)
C18_TwentyTwoMethods ==
    /\ Cardinality(MCP_METHODS) = 22
    /\ OneOfEachKind \subseteq MCP_METHODS
    /\ ClassifierUsesMethodSet

\* A request with a known method has been classified and one exchange later
\* a request with an unknown method has not.
C18_Witness ==
    \E f \in Flows :
        /\ DecidedByMethod(f)
        /\ Body(f).val.v["method"].v[1] = "unknown/method"
        /\ ~Classified(f)
        /\ outcome[f] = "PassThrough"
        /\ request_count = 1

(***************************************************************************)
(* C19: the two settings are never changed after startup; a fail-mode      *)
(* other than exactly "open" behaves as fail-mode "closed" and an          *)
(* evaluation mode other than exactly "server" as mode "cli": check_policy *)
(* ends as it would under those values, the subject goes to the stdin of   *)
(* opa eval, and an evaluator error gives the fail-closed Deny.            *)
(***************************************************************************)
\* The documented value a setting behaves as.
ResolvedMode == IF OPA_MODE = "server" THEN "server" ELSE "cli"
ResolvedFailMode == IF POLICY_FAIL_MODE = "open" THEN "open" ELSE "closed"
\* The evaluator error kinds that check_policy handles.
RaisesRuntimeError(run) ==
    \/ run.kind \in {"notfound", "timeout", "urlerror"}
    \/ /\ run.kind = "exit"
       /\ run.rc # "0"
       /\ \A i \in 1 .. Len(run.out) : run.out[i].t # "badutf8"
    \/ run.kind \in {"exit", "body"} /\ Loads(run.out).exc = "JSONDecodeError"

C20_DenyIsNeverFalsy ==
    \A f \in Flows :
        /\ Denied(f) =>
              /\ policy_error[f].val.v # << >>
              /\ Truthy(policy_error[f].val)
              /\ outcome[f] = "Deny"
              /\ response[f] # NoResponse
              /\ server_got[f] = NoRequest
        /\ (server_got[f] # NoRequest /\ policy_error[f].exc = "none")
              => policy_error[f].val = PyNone

\* The policy denied with an empty reason, and the request was answered
\* and not forwarded.
C20_Witness ==
    \E f \in Flows :
        /\ pc[f] = "done"
        /\ ReasonSupplied(opa_run[f])
        /\ SuppliedReason(opa_run[f]) = JEmptyStr
        /\ Denied(f)
        /\ outcome[f] = "Deny"
        /\ server_got[f] = NoRequest
====
